---- MODULE Spec2Model ----
(***************************************************************************)
(* Model of the MTGA binary patch utility (src/main.go): generatePatch,    *)
(* writePatchFile / writePatchFilev2, readPatchFile / readPatchFilev2 and  *)
(* applyPatch, driven the way run() and runv2() drive them.                *)
(*                                                                         *)
(* Conventions.                                                            *)
(*  - A Go []byte is a sequence of numbers 0..255; Go index i is TLA+      *)
(*    index i+1.                                                           *)
(*  - A Go uint32 is a record [hi, lo] of two 16-bit halves (value         *)
(*    hi*65536 + lo), so that the full 32-bit range and its wraparound are *)
(*    kept although TLC's own integers are narrower.                       *)
(*  - A Go pointer or slice result that may be nil is a sequence of length *)
(*    at most one: << >> is nil, <<v>> is a value.                         *)
(*  - A Go error is a string; "nil" is no error.                           *)
(*  - sha256.Sum256 is abstracted as a collision-free map from buffers to  *)
(*    32-byte digests (see Sum256).                                        *)
(***************************************************************************)
EXTENDS Integers, Sequences, FiniteSets, TLC

\* ------------------------------------------------------------------ bounds

\* Longest input buffer handed to generatePatch by run().
MaxLen == 3

\* Byte values the input buffers are drawn from.
Alphabet == {0, 1, 255}

\* ------------------------------------------------------- program constants

IDENTIFIER == <<77, 84, 71, 65, 68, 73, 70, 70>>   \* "MTGADIFF"
VERSION_MAJOR == 1
VERSION_MINOR == 0
DigestLen == 32
Half == 65536

\* ----------------------------------------------------------------- helpers

Min(a, b) == IF a < b THEN a ELSE b

Zeros(n) == [i \in 1..n |-> 0]

\* s[from:] of Go, from counted from 0.
SliceFrom(s, from) == [i \in 1..(Len(s) - from) |-> s[from + i]]

\* s[:to] of Go.
SliceTo(s, to) == [i \in 1..to |-> s[i]]

\* All sequences over S of length lo..hi.
SeqsOf(S, lo, hi) == UNION {[1..n -> S] : n \in lo..hi}

\* ------------------------------------------------------------------ uint32

U32(n) == [hi |-> (n \div Half) % Half, lo |-> n % Half]

U32Max == [hi |-> Half - 1, lo |-> Half - 1]

\* a + b in uint32: the sum wraps modulo 2^32.
U32Add(a, b) ==
    LET lo == a.lo + b.lo
        hi == a.hi + b.hi + (lo \div Half)
    IN  [hi |-> hi % Half, lo |-> lo % Half]

\* int(u): the value as a (64-bit) int.  Only values below 2^31 can be
\* handed to TLC's arithmetic; larger ones are compared through U32GtInt.
IntOf(u) == u.hi * Half + u.lo

\* int(u) > n, for an int n below 2^16 * 2^15.
U32GtInt(u, n) == u.hi > n \div Half \/ (u.hi = n \div Half /\ u.lo > n % Half)

\* ------------------------------------------------------------------ sha256

\* sha256.Sum256: a collision-free map to DigestLen bytes.  The digest of a
\* buffer is its length followed by its bytes, zero padded; two different
\* buffers (shorter than DigestLen) never share a digest, which is the
\* property of SHA-256 the program relies on.
Sum256(b) == <<Len(b)>> \o b \o Zeros(DigestLen - 1 - Len(b))

\* ------------------------------------------------------------ generatePatch

PatchItem(offset, content) == [Offset |-> offset, Content |-> content]

\* Scan without the flush after the loop: a run still open when the scan
\* ends is lost.
RECURSIVE ScanNoFlush(_, _, _, _, _, _, _)
ScanNoFlush(original, modified, i, minLength, currentData, diffOffsetStart, items) ==
    IF i < minLength
    THEN IF original[i + 1] # modified[i + 1]
         THEN ScanNoFlush(original, modified, i + 1, minLength,
                          Append(currentData, modified[i + 1]),
                          IF Len(currentData) = 0 THEN i ELSE diffOffsetStart,
                          items)
         ELSE IF Len(currentData) > 0
              THEN ScanNoFlush(original, modified, i + 1, minLength, << >>,
                               diffOffsetStart,
                               Append(items, PatchItem(U32(diffOffsetStart), currentData)))
              ELSE ScanNoFlush(original, modified, i + 1, minLength, currentData,
                               diffOffsetStart, items)
    ELSE items

\* The loop of generatePatch over i = 0 .. minLength-1, followed by the flush
\* of a run still open.  currentData is the run being accumulated,
\* diffOffsetStart its first index, items the PatchItems appended so far.
RECURSIVE Scan(_, _, _, _, _, _, _)
Scan(original, modified, i, minLength, currentData, diffOffsetStart, items) ==
    IF i < minLength
    THEN IF original[i + 1] # modified[i + 1]
         THEN Scan(original, modified, i + 1, minLength,
                   Append(currentData, modified[i + 1]),
                   IF Len(currentData) = 0 THEN i ELSE diffOffsetStart,
                   items)
         ELSE IF Len(currentData) > 0
              THEN Scan(original, modified, i + 1, minLength, << >>,
                        diffOffsetStart,
                        Append(items, PatchItem(U32(diffOffsetStart), currentData)))
              ELSE Scan(original, modified, i + 1, minLength, currentData,
                        diffOffsetStart, items)
    ELSE IF Len(currentData) > 0
         THEN Append(items, PatchItem(U32(diffOffsetStart), currentData))
         ELSE items

\* ExtraItems with the run that is open at len(original) carried into the
\* extra item's content one byte early: the extra item starts at
\* len(original)-1.
ExtraItemsEarly(original, modified) ==
    IF Len(modified) > Len(original)
    THEN <<PatchItem(U32(Len(original) - 1), SliceFrom(modified, Len(original) - 1))>>
    ELSE << >>

\* ExtraItems with >= for >: an item is appended also when the two lengths
\* are equal, and its content is then empty.
ExtraItemsAlways(original, modified) ==
    IF Len(modified) >= Len(original)
    THEN <<PatchItem(U32(Len(original)), SliceFrom(modified, Len(original)))>>
    ELSE << >>

\* The item for the bytes of modified beyond len(original).
ExtraItems(original, modified) ==
    IF Len(modified) > Len(original)
    THEN <<PatchItem(U32(Len(original)), SliceFrom(modified, Len(original)))>>
    ELSE << >>

\* The PatchFile header generatePatch fills in before the scan.
NewPatch(original, modified) ==
    [OriginalLength   |-> U32(Len(original)),
     OriginalChecksum |-> Sum256(original),
     PatchedLength    |-> U32(Len(modified)),
     PatchedChecksum  |-> Sum256(modified),
     PatchItems       |-> << >>]

\* generatePatch with the empty-input test joined by && instead of ||: it
\* fails only when both buffers are empty.
generatePatchBothEmpty(original, modified) ==
    IF Len(original) = 0 /\ Len(modified) = 0
    THEN [patch |-> << >>, err |-> "empty input files"]
    ELSE LET patch == NewPatch(original, modified)
         IN  IF patch.OriginalLength = patch.PatchedLength
                /\ patch.OriginalChecksum = patch.PatchedChecksum
             THEN [patch |-> <<patch>>, err |-> "nil"]
             ELSE [patch |-> <<[patch EXCEPT !.PatchItems =
                                   Scan(original, modified, 0,
                                        Min(Len(original), Len(modified)),
                                        << >>, 0, << >>)
                                   \o ExtraItems(original, modified)]>>,
                   err |-> "nil"]

generatePatch(original, modified) ==
    IF Len(original) = 0 \/ Len(modified) = 0
    THEN [patch |-> << >>, err |-> "empty input files"]
    ELSE LET patch == NewPatch(original, modified)
         IN  IF patch.OriginalLength = patch.PatchedLength
                /\ patch.OriginalChecksum = patch.PatchedChecksum
             THEN [patch |-> <<patch>>, err |-> "nil"]
             ELSE [patch |-> <<[patch EXCEPT !.PatchItems =
                                   Scan(original, modified, 0,
                                        Min(Len(original), Len(modified)),
                                        << >>, 0, << >>)
                                   \o ExtraItems(original, modified)]>>,
                   err |-> "nil"]

\* Where the bytes of a returned slice live: in an array of its own
\* (arr = "fresh") or in the array of an input buffer, from index from on.
Fresh == [arr |-> "fresh", from |-> 0]

View(arr, from) == [arr |-> arr, from |-> from]

\* ExtraItemsBacking for Content: modified[len(original):], with no copy.
ExtraItemsBackingSlice(original, modified) ==
    IF Len(modified) > Len(original)
    THEN <<View("modified", Len(original))>>
    ELSE << >>

\* extraData := make([]byte, ...); copy(extraData, modified[len(original):])
ExtraItemsBacking(original, modified) ==
    IF Len(modified) > Len(original) THEN <<Fresh>> ELSE << >>

\* The backing of the Content of every item generatePatch returns, in the
\* order of patch.PatchItems: currentData grows by append from nil, and is
\* set to nil again once it has been handed to an item.
generatePatchBacking(original, modified) ==
    LET r == generatePatch(original, modified)
    IN  IF r.patch = << >> THEN << >>
        ELSE LET extra == ExtraItemsBacking(original, modified)
                 items == r.patch[1].PatchItems
             IN  [k \in 1..(Len(items) - Len(extra)) |-> Fresh] \o extra

\* ----------------------------------------------------------- writePatchFile

\* binary.BigEndian.PutUint32.
PutUint32(u) == <<u.hi \div 256, u.hi % 256, u.lo \div 256, u.lo % 256>>

\* binary.BigEndian.Uint32.
Uint32(b) == [hi |-> b[1] * 256 + b[2], lo |-> b[3] * 256 + b[4]]

\* ItemWrites with the content length written before the offset.
ItemWritesLengthFirst(item) ==
    <<PutUint32(U32(Len(item.Content))), PutUint32(item.Offset), item.Content>>

\* The three Write calls of one item: offset, content length, content.
ItemWrites(item) ==
    <<PutUint32(item.Offset), PutUint32(U32(Len(item.Content))), item.Content>>

RECURSIVE ItemsWrites(_)
ItemsWrites(items) ==
    IF items = << >> THEN << >>
    ELSE ItemWrites(Head(items)) \o ItemsWrites(Tail(items))

\* WriteCalls with the two checksums written in each other's place.
WriteCallsSwapped(patch) ==
    <<IDENTIFIER,
      <<VERSION_MAJOR, VERSION_MINOR>>,
      PutUint32(patch.OriginalLength),
      patch.PatchedChecksum,
      PutUint32(patch.PatchedLength),
      patch.OriginalChecksum,
      PutUint32(U32(Len(patch.PatchItems)))>>
    \o ItemsWrites(patch.PatchItems)

\* The byte slices writePatchFile hands to writer.Write, one per call, in
\* the order of the calls.
WriteCalls(patch) ==
    <<IDENTIFIER,
      <<VERSION_MAJOR, VERSION_MINOR>>,
      PutUint32(patch.OriginalLength),
      patch.OriginalChecksum,
      PutUint32(patch.PatchedLength),
      patch.PatchedChecksum,
      PutUint32(U32(Len(patch.PatchItems)))>>
    \o ItemsWrites(patch.PatchItems)

RECURSIVE Concat(_)
Concat(chunks) ==
    IF chunks = << >> THEN << >> ELSE Head(chunks) \o Concat(Tail(chunks))

\* writePatchFile that goes on to the remaining Write calls after one has
\* reported an error, and returns that error at the end.
writePatchFileKeepsWriting(patch, faultAt) ==
    LET calls == WriteCalls(patch)
    IN  IF faultAt \in 1..Len(calls)
        THEN [bytes  |-> Concat(SubSeq(calls, 1, faultAt - 1))
                         \o Concat(SubSeq(calls, faultAt + 1, Len(calls))),
              err    |-> "write fault",
              writes |-> Len(calls)]
        ELSE [bytes |-> Concat(calls), err |-> "nil", writes |-> Len(calls)]

\* writePatchFile on a writer whose faultAt-th Write reports an error
\* (faultAt = 0: no Write fails).  bytes is what the sink received, writes
\* the number of Write calls issued.
writePatchFile(patch, faultAt) ==
    LET calls == WriteCalls(patch)
    IN  IF faultAt \in 1..Len(calls)
        THEN [bytes  |-> Concat(SubSeq(calls, 1, faultAt - 1)),
              err    |-> "write fault",
              writes |-> faultAt]
        ELSE [bytes |-> Concat(calls), err |-> "nil", writes |-> Len(calls)]

\* --------------------------------------------------------- writePatchFilev2

\* A bufio.Writer of size bytes over a sink whose faultAt-th Write reports an
\* error (0: none does).  buf: the bytes held back, out: the bytes the sink
\* has received, writes: the Write calls made on the sink, err: b.err.
NewWriter(size, faultAt) ==
    [size |-> size, faultAt |-> faultAt, buf |-> << >>, out |-> << >>,
     writes |-> 0, err |-> "nil"]

Available(b) == b.size - Len(b.buf)

\* b.wr.Write(p): a Write that reports an error delivers nothing.
SinkWrite(b, p) ==
    IF b.writes + 1 = b.faultAt
    THEN [b EXCEPT !.writes = @ + 1, !.err = "write fault"]
    ELSE [b EXCEPT !.writes = @ + 1, !.out = @ \o p]

\* (*bufio.Writer).Flush
Flush(b) ==
    IF b.err # "nil" \/ b.buf = << >> THEN b
    ELSE LET w == SinkWrite(b, b.buf)
         IN  IF w.err # "nil" THEN w ELSE [w EXCEPT !.buf = << >>]

\* (*bufio.Writer).Write: what does not fit is flushed, or written straight
\* to the sink when nothing is held back.
RECURSIVE BufWrite(_, _)
BufWrite(b, p) ==
    IF Len(p) > Available(b) /\ b.err = "nil"
    THEN IF b.buf = << >>
         THEN LET w == SinkWrite(b, p)
              IN  BufWrite(w, IF w.err = "nil" THEN << >> ELSE p)
         ELSE LET n == Available(b)
              IN  BufWrite(Flush([b EXCEPT !.buf = @ \o SliceTo(p, n)]),
                           SliceFrom(p, n))
    ELSE IF b.err # "nil" THEN b
    ELSE [b EXCEPT !.buf = @ \o p]

\* The three bufWriter.Write calls of one item in writePatchFilev2.
BufItemWrites(item) ==
    <<PutUint32(item.Offset), PutUint32(U32(Len(item.Content))), item.Content>>

RECURSIVE BufItemsWrites(_)
BufItemsWrites(items) ==
    IF items = << >> THEN << >>
    ELSE BufItemWrites(Head(items)) \o BufItemsWrites(Tail(items))

\* The byte slices writePatchFilev2 hands to bufWriter.Write, in the order
\* of the calls.
BufWriteCalls(patch) ==
    <<IDENTIFIER,
      <<VERSION_MAJOR, VERSION_MINOR>>,
      PutUint32(patch.OriginalLength),
      patch.OriginalChecksum,
      PutUint32(patch.PatchedLength),
      patch.PatchedChecksum,
      PutUint32(U32(Len(patch.PatchItems)))>>
    \o BufItemsWrites(patch.PatchItems)

\* What writePatchFilev2 returns when the writer is left as b.
BufResult(b) == [bytes |-> b.out, err |-> b.err, writes |-> b.writes]

\* WriteAll that returns after the last bufWriter.Write, without Flush.
RECURSIVE WriteAllNoFlush(_, _)
WriteAllNoFlush(b, calls) ==
    IF calls = << >> THEN BufResult(b)
    ELSE LET w == BufWrite(b, Head(calls))
         IN  IF w.err # "nil" THEN BufResult(w) ELSE WriteAllNoFlush(w, Tail(calls))

\* The calls of writePatchFilev2 one after the other, each followed by its
\* error test, and the Flush at the end.
RECURSIVE WriteAll(_, _)
WriteAll(b, calls) ==
    IF calls = << >> THEN BufResult(Flush(b))
    ELSE LET w == BufWrite(b, Head(calls))
         IN  IF w.err # "nil" THEN BufResult(w) ELSE WriteAll(w, Tail(calls))

writePatchFilev2(patch, size, faultAt) ==
    WriteAll(NewWriter(size, faultAt), BufWriteCalls(patch))

\* ------------------------------------------------------------ byte sources

\* A byte source is [data, chunk]: the bytes it holds and the most bytes one
\* Read call hands over; chunk = 0 is a source that hands over all that is
\* asked for (a regular file), a positive chunk one that may hand over less
\* (a pipe, a socket).
FileSource(data) == [data |-> data, chunk |-> 0]

\* The bytes one Read call for n bytes obtains when avail are left.
Delivered(src, n, avail) ==
    IF src.chunk = 0 THEN Min(n, avail) ELSE Min(Min(n, src.chunk), avail)

\* reader.Read(p) with len(p) = n at position pos: at most chunk bytes, no
\* error unless nothing is left; p keeps its zero bytes beyond what was read.
Read(src, pos, n) ==
    LET avail == Len(src.data) - pos
        k     == Delivered(src, n, avail)
    IN  [buf |-> [i \in 1..n |-> IF i <= k THEN src.data[pos + i] ELSE 0],
         n   |-> k,
         err |-> IF n > 0 /\ avail = 0 THEN "EOF" ELSE "nil",
         pos |-> pos + k]

\* io.ReadFull(reader, p): reads until p is full; io.EOF when nothing was
\* read, io.ErrUnexpectedEOF when the source ends part way.
ReadFull(src, pos, n) ==
    LET avail == Len(src.data) - pos
        k     == Min(n, avail)
    IN  [buf |-> [i \in 1..n |-> IF i <= k THEN src.data[pos + i] ELSE 0],
         n   |-> k,
         err |-> IF k = n THEN "nil"
                 ELSE IF k = 0 THEN "EOF" ELSE "unexpected EOF",
         pos |-> pos + k]

\* ------------------------------------------------------------ readPatchFile

DecodeFail(e) == [patch |-> << >>, err |-> e]

\* The read of a raw byte field: reader.Read in readPatchFile, io.ReadFull in
\* readPatchFilev2.
ReadField(src, pos, n, full) ==
    IF full THEN ReadFull(src, pos, n) ELSE Read(src, pos, n)

\* ReadItems that puts each item it reads before those read so far.
RECURSIVE ReadItemsPrepend(_, _, _, _, _, _)
ReadItemsPrepend(src, pos, full, i, itemCount, patch) ==
    IF ~U32GtInt(itemCount, i)
    THEN [patch |-> <<patch>>, err |-> "nil"]
    ELSE LET off == ReadFull(src, pos, 4)
         IN  IF off.err # "nil" THEN DecodeFail(off.err)
             ELSE LET len == ReadFull(src, off.pos, 4)
                  IN  IF len.err # "nil" THEN DecodeFail(len.err)
                      ELSE LET content == ReadField(src, len.pos,
                                                    IntOf(Uint32(len.buf)), full)
                           IN  IF content.err # "nil" THEN DecodeFail(content.err)
                               ELSE ReadItemsPrepend(src, content.pos, full, i + 1,
                                      itemCount,
                                      [patch EXCEPT !.PatchItems =
                                          <<PatchItem(Uint32(off.buf), content.buf)>>
                                          \o @])

\* The item loop of readPatchFile / readPatchFilev2, from item i on.
RECURSIVE ReadItems(_, _, _, _, _, _)
ReadItems(src, pos, full, i, itemCount, patch) ==
    IF ~U32GtInt(itemCount, i)
    THEN [patch |-> <<patch>>, err |-> "nil"]
    ELSE LET off == ReadFull(src, pos, 4)
         IN  IF off.err # "nil" THEN DecodeFail(off.err)
             ELSE LET len == ReadFull(src, off.pos, 4)
                  IN  IF len.err # "nil" THEN DecodeFail(len.err)
                      ELSE LET content == ReadField(src, len.pos,
                                                    IntOf(Uint32(len.buf)), full)
                           IN  IF content.err # "nil" THEN DecodeFail(content.err)
                               ELSE ReadItems(src, content.pos, full, i + 1, itemCount,
                                      [patch EXCEPT !.PatchItems =
                                          Append(@, PatchItem(Uint32(off.buf),
                                                              content.buf))])

\* The body shared by readPatchFile (full = FALSE) and readPatchFilev2
\* (full = TRUE): the two differ only in how the raw byte fields are read.
Decode(src, full) ==
    LET magic == ReadField(src, 0, Len(IDENTIFIER), full)
    IN
    IF magic.err # "nil" THEN DecodeFail(magic.err)
    ELSE IF magic.buf # IDENTIFIER THEN DecodeFail("invalid patch file format")
    ELSE
    LET version == ReadField(src, magic.pos, 2, full)
    IN
    IF version.err # "nil" THEN DecodeFail(version.err)
    ELSE IF version.buf[1] # VERSION_MAJOR \/ version.buf[2] # VERSION_MINOR
         THEN DecodeFail("unsupported patch version")
    ELSE
    LET olen == ReadFull(src, version.pos, 4)
    IN
    IF olen.err # "nil" THEN DecodeFail(olen.err)
    ELSE
    LET osum == ReadField(src, olen.pos, DigestLen, full)
    IN
    IF osum.err # "nil" THEN DecodeFail(osum.err)
    ELSE
    LET plen == ReadFull(src, osum.pos, 4)
    IN
    IF plen.err # "nil" THEN DecodeFail(plen.err)
    ELSE
    LET psum == ReadField(src, plen.pos, DigestLen, full)
    IN
    IF psum.err # "nil" THEN DecodeFail(psum.err)
    ELSE
    LET count == ReadFull(src, psum.pos, 4)
    IN
    IF count.err # "nil" THEN DecodeFail(count.err)
    ELSE ReadItems(src, count.pos, full, 0, Uint32(count.buf),
                   [OriginalLength   |-> Uint32(olen.buf),
                    OriginalChecksum |-> osum.buf,
                    PatchedLength    |-> Uint32(plen.buf),
                    PatchedChecksum  |-> psum.buf,
                    PatchItems       |-> << >>])

\* readPatchFile with the version test joined by && instead of ||: a version
\* is rejected only when both of its bytes are wrong.
readPatchFileLaxVersion(src) ==
    IF Len(src.data) >= Len(IDENTIFIER) + 2
       /\ (src.data[Len(IDENTIFIER) + 1] = VERSION_MAJOR
           \/ src.data[Len(IDENTIFIER) + 2] = VERSION_MINOR)
    THEN Decode([src EXCEPT !.data = [@ EXCEPT ![Len(IDENTIFIER) + 1] = VERSION_MAJOR,
                                              ![Len(IDENTIFIER) + 2] = VERSION_MINOR]],
                FALSE)
    ELSE Decode(src, FALSE)

\* readPatchFile with the version read and tested before the magic is
\* compared.
readPatchFileVersionFirst(src) ==
    IF Len(src.data) >= Len(IDENTIFIER) + 2
       /\ (src.data[Len(IDENTIFIER) + 1] # VERSION_MAJOR
           \/ src.data[Len(IDENTIFIER) + 2] # VERSION_MINOR)
    THEN DecodeFail("unsupported patch version")
    ELSE Decode(src, FALSE)

readPatchFile(src) == Decode(src, FALSE)

readPatchFilev2(src) == Decode(src, TRUE)

\* --------------------------------------------------------------- applyPatch

ApplyFail(e) == [buf |-> << >>, err |-> e, abort |-> FALSE]

\* A run-time panic: applyPatch returns nothing, the program aborts.
ApplyAbort == [buf |-> << >>, err |-> "panic", abort |-> TRUE]

\* BaseBuffer without the copy of original: the buffer stays zero.
BaseBufferNoCopy(original, patchedLength) ==
    [i \in 1..IntOf(patchedLength) |-> 0]

\* BaseBuffer that keeps all of original when it is the longer one.
BaseBufferNoTruncate(original, patchedLength) ==
    [i \in 1..(IF Len(original) > IntOf(patchedLength)
               THEN Len(original) ELSE IntOf(patchedLength)) |->
        IF i <= Len(original) THEN original[i] ELSE 0]

\* modified := make([]byte, patch.PatchedLength) and the copy of original
\* into it (all of original, or its first len(modified) bytes).
BaseBuffer(original, patchedLength) ==
    [i \in 1..IntOf(patchedLength) |-> IF i <= Len(original) THEN original[i] ELSE 0]

\* CopyAt that ignores the offset: copy(dst, src).
CopyAtStart(dst, at, src) ==
    [i \in 1..Len(dst) |-> IF i <= Len(src) THEN src[i] ELSE dst[i]]

\* copy(dst[at:], src): min(len(dst) - at, len(src)) bytes.
CopyAt(dst, at, src) ==
    [i \in 1..Len(dst) |-> IF i > at /\ i - at <= Len(src) THEN src[i - at] ELSE dst[i]]

\* One pass of the loop over patch.PatchItems.  The sum is formed in uint32
\* and wraps before it is converted to int; modified[item.Offset:] panics
\* when item.Offset exceeds len(modified).
ApplyItem(buf, item) ==
    LET num   == U32Add(item.Offset, U32(Len(item.Content)))
        grown == IF U32GtInt(num, Len(buf))
                 THEN buf \o Zeros(IntOf(num) - Len(buf))
                 ELSE buf
    IN  IF U32GtInt(item.Offset, Len(grown))
        THEN [buf |-> grown, panic |-> TRUE]
        ELSE [buf |-> CopyAt(grown, IntOf(item.Offset), item.Content), panic |-> FALSE]

\* ApplyItems that walks patch.PatchItems from the last item to the first.
RECURSIVE ApplyItemsReversed(_, _)
ApplyItemsReversed(buf, items) ==
    IF items = << >> THEN [buf |-> buf, panic |-> FALSE]
    ELSE LET r == ApplyItemsReversed(buf, Tail(items))
         IN  IF r.panic THEN r ELSE ApplyItem(r.buf, Head(items))

RECURSIVE ApplyItems(_, _)
ApplyItems(buf, items) ==
    IF items = << >> THEN [buf |-> buf, panic |-> FALSE]
    ELSE LET r == ApplyItem(buf, Head(items))
         IN  IF r.panic THEN r ELSE ApplyItems(r.buf, Tail(items))

\* applyPatch without the check of the original's checksum.
applyPatchNoOriginalChecksum(orig, patch) ==
    IF U32(Len(orig)) # patch.OriginalLength
    THEN ApplyFail("original file length mismatch")
    ELSE LET r == ApplyItems(BaseBuffer(orig, patch.PatchedLength), patch.PatchItems)
         IN  IF r.panic THEN ApplyAbort
             ELSE IF U32(Len(r.buf)) # patch.PatchedLength
             THEN ApplyFail("patched file length mismatch")
             ELSE IF Sum256(r.buf) # patch.PatchedChecksum
             THEN ApplyFail("patched file checksum mismatch")
             ELSE [buf |-> <<r.buf>>, err |-> "nil", abort |-> FALSE]

\* applyPatch without the check of the result's checksum.
applyPatchNoPatchedChecksum(orig, patch) ==
    IF U32(Len(orig)) # patch.OriginalLength
    THEN ApplyFail("original file length mismatch")
    ELSE IF Sum256(orig) # patch.OriginalChecksum
    THEN ApplyFail("original file checksum mismatch")
    ELSE LET r == ApplyItems(BaseBuffer(orig, patch.PatchedLength), patch.PatchItems)
         IN  IF r.panic THEN ApplyAbort
             ELSE IF U32(Len(r.buf)) # patch.PatchedLength
             THEN ApplyFail("patched file length mismatch")
             ELSE [buf |-> <<r.buf>>, err |-> "nil", abort |-> FALSE]

\* applyPatch with the two checks of the original in the other order.
applyPatchChecksumFirst(orig, patch) ==
    IF Sum256(orig) # patch.OriginalChecksum
    THEN ApplyFail("original file checksum mismatch")
    ELSE IF U32(Len(orig)) # patch.OriginalLength
    THEN ApplyFail("original file length mismatch")
    ELSE LET r == ApplyItems(BaseBuffer(orig, patch.PatchedLength), patch.PatchItems)
         IN  IF r.panic THEN ApplyAbort
             ELSE IF U32(Len(r.buf)) # patch.PatchedLength
             THEN ApplyFail("patched file length mismatch")
             ELSE IF Sum256(r.buf) # patch.PatchedChecksum
             THEN ApplyFail("patched file checksum mismatch")
             ELSE [buf |-> <<r.buf>>, err |-> "nil", abort |-> FALSE]

applyPatch(orig, patch) ==
    IF U32(Len(orig)) # patch.OriginalLength
    THEN ApplyFail("original file length mismatch")
    ELSE IF Sum256(orig) # patch.OriginalChecksum
    THEN ApplyFail("original file checksum mismatch")
    ELSE LET r == ApplyItems(BaseBuffer(orig, patch.PatchedLength), patch.PatchItems)
         IN  IF r.panic THEN ApplyAbort
             ELSE IF U32(Len(r.buf)) # patch.PatchedLength
             THEN ApplyFail("patched file length mismatch")
             ELSE IF Sum256(r.buf) # patch.PatchedChecksum
             THEN ApplyFail("patched file checksum mismatch")
             ELSE [buf |-> <<r.buf>>, err |-> "nil", abort |-> FALSE]

\* The backing of the buffer applyPatch returns: modified comes from make,
\* and append extends that array or moves it to a new one.
applyPatchBacking(orig, patch) == Fresh

\* ------------------------------------------------------------------- state

\* original, modified: the two input buffers (readv1 / readv2).
\* gen:    what generatePatch returned.
\* sink:   the bytes writePatchFile delivered to the patch file.
\* src:    the byte source the patch is read back from.
\* tamper: the checksum field of the stored bytes that had a bit flipped.
\* reader: the decoder that ran ("v1" readPatchFile, "v2" readPatchFilev2).
\* dec:    what the decoder returned.
\* out:    what applyPatch returned.
\* pc:     the position in run().
VARIABLES original, modified, gen, sink, src, tamper, reader, dec, out, pc,
          wrote, share

vars == <<original, modified, gen, sink, src, tamper, reader, dec, out, pc,
          wrote, share>>

Buffers == SeqsOf(Alphabet, 0, MaxLen)

NoPatch == [patch |-> << >>, err |-> "nil"]

NoResult == [buf |-> << >>, err |-> "nil", abort |-> FALSE]

\* Nothing has been written yet.
NoWrite == [writer |-> "none", size |-> 0, fault |-> 0, err |-> "nil", writes |-> 0]

\* Nothing has been returned yet.
NoShare == [items |-> << >>, result |-> << >>]

Start ==
    /\ gen = NoPatch
    /\ sink = << >>
    /\ src = FileSource(<< >>)
    /\ tamper = "none"
    /\ reader = "none"
    /\ dec = NoPatch
    /\ out = NoResult
    /\ pc = "start"
    /\ wrote = NoWrite
    /\ share = NoShare

Init ==
    /\ original \in Buffers
    /\ modified \in Buffers
    /\ Start

\* patch, err := generatePatch(original, modified)
Generate ==
    /\ pc = "start"
    /\ gen' = generatePatch(original, modified)
    /\ pc' = IF gen'.err = "nil" THEN "generated" ELSE "failed"
    /\ share' = [share EXCEPT !.items = generatePatchBacking(original, modified)]
    /\ UNCHANGED <<original, modified, sink, src, tamper, reader, dec, out, wrote>>

\* writePatchFile(patch, patchFile), then os.Open of the file written.
WritePatch ==
    /\ pc = "generated"
    /\ LET w == writePatchFile(gen.patch[1], 0)
       IN  /\ sink' = w.bytes
           /\ src' = FileSource(w.bytes)
           /\ pc' = IF w.err = "nil" THEN "written" ELSE "failed"
           /\ wrote' = [writer |-> "v1", size |-> 0, fault |-> 0,
                        err |-> w.err, writes |-> w.writes]
    /\ UNCHANGED <<original, modified, gen, tamper, reader, dec, out, share>>

\* readPatch, err := readPatchFile(patchFile)
ReadPatch ==
    /\ pc = "written"
    /\ dec' = readPatchFile(src)
    /\ reader' = "v1"
    /\ pc' = IF dec'.err = "nil" THEN "decoded" ELSE "failed"
    /\ UNCHANGED <<original, modified, gen, sink, src, tamper, out, wrote, share>>

\* readPatch, err := readPatchFilev2(bufReader)
ReadPatchV2 ==
    /\ pc = "written"
    /\ dec' = readPatchFilev2(src)
    /\ reader' = "v2"
    /\ pc' = IF dec'.err = "nil" THEN "decoded" ELSE "failed"
    /\ UNCHANGED <<original, modified, gen, sink, src, tamper, out, wrote, share>>

\* result, err := applyPatch(original, readPatch)
ApplyPatch ==
    /\ pc = "decoded"
    /\ out' = applyPatch(original, dec.patch[1])
    /\ pc' = IF out'.err = "nil" THEN "applied" ELSE "failed"
    /\ share' = [share EXCEPT !.result =
                    IF out'.buf = << >> THEN << >>
                    ELSE <<applyPatchBacking(original, dec.patch[1])>>]
    /\ UNCHANGED <<original, modified, gen, sink, src, tamper, reader, dec, wrote>>

Next == Generate \/ WritePatch \/ ReadPatch \/ ApplyPatch

Spec == Init /\ [][Next]_vars

\* ------------------------------------------- the stored patch is disturbed

\* Longest input buffer of the runs in which the stored bytes are disturbed.
MaxWireLen == 2

WireAlphabet == {0, 255}

InitWire ==
    /\ original \in SeqsOf(WireAlphabet, 1, MaxWireLen)
    /\ modified \in SeqsOf(WireAlphabet, 1, MaxWireLen)
    /\ Start

\* Where the two checksum fields start in the encoding (bytes before them).
OriginalChecksumAt == Len(IDENTIFIER) + 2 + 4

PatchedChecksumAt == OriginalChecksumAt + DigestLen + 4

\* byte b with bit k (0 = least significant) inverted.
FlipBit(b, k) == IF (b \div (2 ^ k)) % 2 = 1 THEN b - 2 ^ k ELSE b + 2 ^ k

\* bytes with bit number bit of the field starting after at bytes inverted.
FlipFieldBit(bytes, at, bit) ==
    [bytes EXCEPT ![at + (bit \div 8) + 1] = FlipBit(@, bit % 8)]

\* One bit of one checksum field of the patch file is flipped between the
\* write and the read.
Tamper ==
    /\ pc = "written"
    /\ tamper = "none"
    /\ \E field \in {"original", "patched"}, bit \in 0..(8 * DigestLen - 1) :
          /\ tamper' = field
          /\ sink' = FlipFieldBit(sink,
                                  IF field = "original" THEN OriginalChecksumAt
                                  ELSE PatchedChecksumAt,
                                  bit)
          /\ src' = FileSource(sink')
    /\ UNCHANGED <<original, modified, gen, reader, dec, out, pc, wrote, share>>

NextTamper == Next \/ Tamper

SpecTamper == InitWire /\ [][NextTamper]_vars

\* The most bytes one Read call of a slow source hands over.
ChunkSizes == {1, 16}

\* The byte source ends early: it holds a proper prefix of the bytes written.
Truncate ==
    /\ pc = "written"
    /\ Len(src.data) = Len(sink)
    /\ \E n \in 0..(Len(sink) - 1) : src' = [src EXCEPT !.data = SliceTo(sink, n)]
    /\ UNCHANGED <<original, modified, gen, sink, tamper, reader, dec, out, pc, wrote, share>>

\* The byte source is one that hands over a few bytes per Read call.
Throttle ==
    /\ pc = "written"
    /\ src.chunk = 0
    /\ \E c \in ChunkSizes : src' = [src EXCEPT !.chunk = c]
    /\ UNCHANGED <<original, modified, gen, sink, tamper, reader, dec, out, pc, wrote, share>>

NextSource == Next \/ ReadPatchV2 \/ Truncate \/ Throttle

SpecSource == InitWire /\ [][NextSource]_vars

\* ------------------------------------------ the stored header is not ours

\* Magic identifiers a file may start with: ours, and two that differ from it
\* in the first and in the last byte.
MagicVariants ==
    {IDENTIFIER, [IDENTIFIER EXCEPT ![1] = 109], [IDENTIFIER EXCEPT ![8] = 71]}

\* Version byte pairs a file may carry.
VersionVariants == {<<major, minor>> : major \in {0, 1, 2}, minor \in {0, 1}}

\* The patch file read back starts with another magic identifier, another
\* version, or both; the bytes after the version are those that were written.
Damage ==
    /\ pc = "written"
    /\ tamper = "none"
    /\ Len(src.data) = Len(sink)
    /\ \E magic \in MagicVariants, version \in VersionVariants :
          /\ magic \o version # SliceTo(sink, Len(IDENTIFIER) + 2)
          /\ sink' = magic \o version \o SliceFrom(sink, Len(IDENTIFIER) + 2)
          /\ src' = FileSource(sink')
    /\ tamper' = "header"
    /\ UNCHANGED <<original, modified, gen, reader, dec, out, pc, wrote, share>>

NextHeader == Next \/ ReadPatchV2 \/ Damage \/ Truncate

SpecHeader == InitWire /\ [][NextHeader]_vars

\* ------------------------------------------------------ the sink may fail

\* Sizes of the bufio.Writer handed to writePatchFilev2: smaller than the
\* magic, smaller than a checksum, and the default of bufio.NewWriter.
BufSizes == {4, 16, 4096}

\* writePatchFile(patch, patchFile) when one Write of the file fails.
WritePatchFault ==
    /\ pc = "generated"
    /\ \E faultAt \in 1..Len(WriteCalls(gen.patch[1])) :
          LET w == writePatchFile(gen.patch[1], faultAt)
          IN  /\ sink' = w.bytes
              /\ src' = FileSource(w.bytes)
              /\ pc' = IF w.err = "nil" THEN "written" ELSE "failed"
              /\ wrote' = [writer |-> "v1", size |-> 0, fault |-> faultAt,
                           err |-> w.err, writes |-> w.writes]
    /\ UNCHANGED <<original, modified, gen, tamper, reader, dec, out, share>>

\* writePatchFilev2(patch, bufWriter), every Write of the file succeeding
\* (faultAt = 0) or one of them failing.
WritePatchV2 ==
    /\ pc = "generated"
    /\ \E size \in BufSizes :
          \E faultAt \in 0..writePatchFilev2(gen.patch[1], size, 0).writes :
             LET w == writePatchFilev2(gen.patch[1], size, faultAt)
             IN  /\ sink' = w.bytes
                 /\ src' = FileSource(w.bytes)
                 /\ pc' = IF w.err = "nil" THEN "written" ELSE "failed"
                 /\ wrote' = [writer |-> "v2", size |-> size, fault |-> faultAt,
                              err |-> w.err, writes |-> w.writes]
    /\ UNCHANGED <<original, modified, gen, tamper, reader, dec, out, share>>

NextCodec ==
    Generate \/ WritePatch \/ WritePatchFault \/ WritePatchV2
    \/ ReadPatch \/ ReadPatchV2 \/ Damage \/ ApplyPatch

SpecCodec == InitWire /\ [][NextCodec]_vars

\* ------------------------------------- the caller changes a buffer afterwards

\* buf with the byte at index idx (from 1) set to b; other indices of buf,
\* and every idx outside buf, leave it as it is.
Poke(buf, idx, b) == [j \in 1..Len(buf) |-> IF j = idx THEN b ELSE buf[j]]

\* A slice with backing where, after the byte at index idx of array arr has
\* been set to b.
Seen(buf, where, arr, idx, b) ==
    IF where.arr = arr THEN Poke(buf, idx - where.from, b) ELSE buf

\* The returned PatchFile after that store.
PatchSeen(arr, idx, b) ==
    IF gen.patch = << >> THEN gen
    ELSE [gen EXCEPT !.patch[1].PatchItems =
            [k \in 1..Len(@) |->
                [@[k] EXCEPT !.Content = Seen(@, share.items[k], arr, idx, b)]]]

\* The returned buffer after that store.
ResultSeen(arr, idx, b) ==
    IF out.buf = << >> THEN out
    ELSE [out EXCEPT !.buf[1] = Seen(@, share.result[1], arr, idx, b)]

\* The byte at index idx of array arr is set to b: every slice that lives in
\* that array shows the new byte.
Store(arr, idx, b) ==
    /\ original' = IF arr = "original" THEN Poke(original, idx, b) ELSE original
    /\ modified' = IF arr = "modified" THEN Poke(modified, idx, b) ELSE modified
    /\ gen' = PatchSeen(arr, idx, b)
    /\ out' = ResultSeen(arr, idx, b)

\* The values have been handed back to the caller.
Returned == pc \in {"generated", "written", "decoded", "applied"}

\* The caller overwrites a byte of one of the two input buffers.
ScribbleInput ==
    /\ Returned
    /\ \E arr \in {"original", "modified"}, b \in WireAlphabet :
          \E idx \in 1..Len(IF arr = "original" THEN original ELSE modified) :
             /\ b # (IF arr = "original" THEN original ELSE modified)[idx]
             /\ Store(arr, idx, b)
    /\ pc' = "changed"
    /\ UNCHANGED <<sink, src, tamper, reader, dec, wrote, share>>

\* The caller overwrites a byte of the content of a returned item or of the
\* returned buffer.
ScribbleOutput ==
    /\ Returned
    /\ \E b \in WireAlphabet :
          \/ \E k \in 1..Len(gen.patch[1].PatchItems) :
                \E j \in 1..Len(gen.patch[1].PatchItems[k].Content) :
                   /\ b # gen.patch[1].PatchItems[k].Content[j]
                   /\ IF share.items[k].arr = "fresh"
                      THEN /\ gen' = [gen EXCEPT
                                        !.patch[1].PatchItems[k].Content[j] = b]
                           /\ UNCHANGED <<original, modified, out>>
                      ELSE Store(share.items[k].arr, share.items[k].from + j, b)
          \/ /\ out.buf # << >>
             /\ \E j \in 1..Len(out.buf[1]) :
                   /\ b # out.buf[1][j]
                   /\ IF share.result[1].arr = "fresh"
                      THEN /\ out' = [out EXCEPT !.buf[1][j] = b]
                           /\ UNCHANGED <<original, modified, gen>>
                      ELSE Store(share.result[1].arr, share.result[1].from + j, b)
    /\ pc' = "changed"
    /\ UNCHANGED <<sink, src, tamper, reader, dec, wrote, share>>

NextAlias == Next \/ ScribbleInput \/ ScribbleOutput

SpecAlias == InitWire /\ [][NextAlias]_vars

\* --------------------------------------------------- patch files not our own

\* Most items in a patch file that generatePatch did not produce.
MaxItems == 2

\* Largest patchedLength such a file declares.
MaxPatchedLen == 3

ForgedOriginals == {<<1>>, <<0, 1>>}

ForgedOffsets == {U32(0), U32(1), U32(2), U32Max}

ForgedContents == {<< >>, <<1>>, <<0, 1>>}

\* offset + len(content) exceeds the 32-bit range.
Wraps(item) == item.Offset.hi + ((item.Offset.lo + Len(item.Content)) \div Half) >= Half

\* The items of forged files.  An item that ends beyond 2^16 without wrapping
\* would make applyPatch grow the buffer to gigabytes; such items are left
\* out.
ForgedItems ==
    {it \in {PatchItem(o, c) : o \in ForgedOffsets, c \in ForgedContents} :
        Wraps(it) \/ it.Offset.hi = 0}

\* A 32-byte value that is the digest of no buffer of the model.
BadDigest == [i \in 1..DigestLen |-> 255]

\* The patch files offered for orig: those whose original checks pass, with
\* every declared length, checksum and item sequence of the bounds, and those
\* whose original length, original checksum or both are wrong.
ForgedPatches(orig) ==
    {[OriginalLength   |-> U32(Len(orig)),
      OriginalChecksum |-> Sum256(orig),
      PatchedLength    |-> U32(pl),
      PatchedChecksum  |-> sum,
      PatchItems       |-> items] :
        pl \in 0..MaxPatchedLen,
        sum \in {Sum256(b) : b \in SeqsOf({0, 1}, 0, MaxPatchedLen)} \cup {BadDigest},
        items \in SeqsOf(ForgedItems, 0, MaxItems)}
    \cup
    {[OriginalLength   |-> U32(ol),
      OriginalChecksum |-> sum,
      PatchedLength    |-> U32(Len(orig)),
      PatchedChecksum  |-> Sum256(orig),
      PatchItems       |-> items] :
        ol \in {Len(orig), Len(orig) + 1},
        sum \in {Sum256(orig), BadDigest},
        items \in SeqsOf(ForgedItems, 0, 1)}

InitForged ==
    /\ original \in ForgedOriginals
    /\ modified = << >>
    /\ Start

\* A patch file from elsewhere is put in place of one this program wrote.
Forge ==
    /\ pc = "start"
    /\ \E p \in ForgedPatches(original) :
          /\ sink' = writePatchFile(p, 0).bytes
          /\ src' = FileSource(sink')
    /\ pc' = "written"
    /\ UNCHANGED <<original, modified, gen, tamper, reader, dec, out, wrote, share>>

NextForged == Forge \/ ReadPatch \/ ApplyPatch

SpecForged == InitForged /\ [][NextForged]_vars

\* ------------------------------------------------------------------ claims

Succeeded(buf) == [buf |-> <<buf>>, err |-> "nil", abort |-> FALSE]

\* generatePatch has returned a PatchFile.
Generated == gen.patch # << >>

GenItems == gen.patch[1].PatchItems

\* The end of an item: offset + len(content), for the small offsets
\* generatePatch produces.
ItemEnd(item) == IntOf(item.Offset) + Len(item.Content)

\* The maximal runs <<s, e>> (Go indices, inclusive) of positions below
\* min(len(a), len(b)) at which a and b differ.
DiffRuns(a, b) ==
    LET n       == Min(Len(a), Len(b))
        Diff(i) == a[i + 1] # b[i + 1]
    IN  {r \in (0..(n - 1)) \X (0..(n - 1)) :
            /\ r[1] <= r[2]
            /\ \A i \in r[1]..r[2] : Diff(i)
            /\ r[1] = 0 \/ ~Diff(r[1] - 1)
            /\ r[2] = n - 1 \/ ~Diff(r[2] + 1)}

\* The items of the overlapping range: those that start below
\* min(len(original), len(modified)).
OverlapItems == SelectSeq(GenItems, LAMBDA it : IntOf(it.Offset) < Min(Len(original), Len(modified)))

\* C1: round trip.  For non-empty original and modified, run() ends with
\* applyPatch returning a buffer equal to modified byte for byte; and
\* applyPatch on the PatchFile generatePatch returned (before any encoding)
\* gives that same buffer.
C1_RoundTrip ==
    /\ (Len(original) > 0 /\ Len(modified) > 0) =>
          /\ pc # "failed"
          /\ pc = "applied" => out = Succeeded(modified)
    /\ pc = "generated" => applyPatch(original, gen.patch[1]) = Succeeded(modified)

C1_Witness ==
    /\ pc = "applied"
    /\ Len(original) < Len(modified)
    /\ Len(GenItems) = 2
    /\ out.buf = <<modified>>

\* C2: serialization round trip.  Reading back the file writePatchFile wrote
\* for a PatchFile of generatePatch succeeds and returns a PatchFile equal to
\* it in every field: both lengths, both checksums, and the items in the same
\* order with the same offsets and contents.
C2_SerializationRoundTrip ==
    /\ pc = "written" => readPatchFile(src).err = "nil"
    /\ pc \in {"decoded", "applied"} =>
          /\ dec.err = "nil"
          /\ dec.patch = gen.patch
          /\ dec.patch[1].OriginalLength = gen.patch[1].OriginalLength
          /\ dec.patch[1].OriginalChecksum = gen.patch[1].OriginalChecksum
          /\ dec.patch[1].PatchedLength = gen.patch[1].PatchedLength
          /\ dec.patch[1].PatchedChecksum = gen.patch[1].PatchedChecksum
          /\ Len(dec.patch[1].PatchItems) = Len(GenItems)
          /\ \A k \in 1..Len(GenItems) : dec.patch[1].PatchItems[k] = GenItems[k]

C2_Witness ==
    /\ pc = "decoded"
    /\ Len(dec.patch[1].PatchItems) = 2
    /\ original # modified
    /\ dec.patch = gen.patch

\* C7: identity shortcut.  For a non-empty buffer A, generatePatch(A, A)
\* returns a PatchFile with no items, both lengths len(A) and both checksums
\* the digest of A, and applying it to A returns A.
C7_IdentityShortcut ==
    (original = modified /\ Generated) =>
        /\ GenItems = << >>
        /\ gen.patch[1].OriginalLength = U32(Len(original))
        /\ gen.patch[1].PatchedLength = U32(Len(original))
        /\ gen.patch[1].OriginalChecksum = Sum256(original)
        /\ gen.patch[1].PatchedChecksum = Sum256(original)
        /\ applyPatch(original, gen.patch[1]) = Succeeded(original)
        /\ pc = "applied" => out = Succeeded(original)

C7_Witness ==
    /\ pc = "applied"
    /\ original = modified
    /\ Len(original) = 2
    /\ out.buf = <<original>>

\* C8: within 0..min(len(original), len(modified)) the items generatePatch
\* emits are exactly the maximal runs of differing positions: one item per
\* run, in ascending order, with offset the run's first index and content the
\* bytes of modified over the run; no run is split or merged with another,
\* and a run open at the end of the scan is emitted.
C8_MaximalRuns ==
    Generated =>
        /\ {<<IntOf(OverlapItems[k].Offset), ItemEnd(OverlapItems[k]) - 1>> :
               k \in 1..Len(OverlapItems)} = DiffRuns(original, modified)
        /\ Len(OverlapItems) = Cardinality(DiffRuns(original, modified))
        /\ \A k \in 1..Len(OverlapItems) :
              /\ Len(OverlapItems[k].Content) > 0
              /\ OverlapItems[k].Content
                    = SubSeq(modified, IntOf(OverlapItems[k].Offset) + 1,
                             ItemEnd(OverlapItems[k]))
              /\ GenItems[k] = OverlapItems[k]
        /\ \A k \in 1..(Len(OverlapItems) - 1) :
              ItemEnd(OverlapItems[k]) < IntOf(OverlapItems[k + 1].Offset)

\* Two runs, the second still open when the scan ends.
C8_Witness ==
    /\ pc = "generated"
    /\ Len(original) = 3
    /\ Len(modified) = 3
    /\ Len(OverlapItems) = 2
    /\ ItemEnd(OverlapItems[2]) = 3

\* C9: when modified is strictly longer than original, the last item is the
\* one extra item, with offset len(original) and content
\* modified[len(original):]; no other item reaches len(original) or beyond,
\* and the extra item stays separate from a diff run that ends at
\* len(original)-1.
C9_GrowthItem ==
    (Generated /\ Len(modified) > Len(original)) =>
        /\ Len(GenItems) >= 1
        /\ GenItems[Len(GenItems)]
              = PatchItem(U32(Len(original)), SliceFrom(modified, Len(original)))
        /\ \A k \in 1..(Len(GenItems) - 1) : ItemEnd(GenItems[k]) <= Len(original)
        /\ Len(GenItems) = Cardinality(DiffRuns(original, modified)) + 1

\* A diff run ends at len(original)-1 and the extra item follows it unmerged.
C9_Witness ==
    /\ pc = "generated"
    /\ Len(modified) > Len(original)
    /\ Len(GenItems) = 2
    /\ ItemEnd(GenItems[1]) = Len(original)
    /\ IntOf(GenItems[2].Offset) = Len(original)

\* C10: when modified is no longer than original, the items are the diff runs
\* of the overlapping range and nothing else: every item ends at or before
\* len(modified), patchedLength is len(modified), and applyPatch returns a
\* buffer of exactly len(modified) bytes (the tail of original is dropped).
C10_ShrinkOrEqual ==
    (Generated /\ Len(modified) <= Len(original)) =>
        /\ Len(GenItems) = Cardinality(DiffRuns(original, modified))
        /\ \A k \in 1..Len(GenItems) : ItemEnd(GenItems[k]) <= Len(modified)
        /\ gen.patch[1].PatchedLength = U32(Len(modified))
        /\ LET r == applyPatch(original, gen.patch[1])
           IN  /\ r.err = "nil"
               /\ Len(r.buf[1]) = Len(modified)
        /\ pc = "applied" => Len(out.buf[1]) = Len(modified)

\* original [a,b,c], modified strictly shorter, no items.
C10_Witness ==
    /\ pc = "applied"
    /\ Len(original) = 3
    /\ Len(modified) = 2
    /\ GenItems = << >>
    /\ out.buf = <<modified>>

\* io.EOF and io.ErrUnexpectedEOF: the stream ended before a field was
\* complete.
TruncatedData == {"EOF", "unexpected EOF"}

\* C3: full reads.  Decoding a byte source that ends early (a proper prefix of
\* a valid encoding) fails with io.EOF or io.ErrUnexpectedEOF and returns no
\* PatchFile; a source that holds the whole encoding but hands over fewer
\* bytes per call than asked for is read until each field is complete, so
\* the decoder returns the PatchFile that was encoded; and a PatchFile is
\* never built from a short read.
C3_FullReads ==
    reader # "none" =>
        /\ Len(src.data) < Len(sink) => (dec.patch = << >> /\ dec.err \in TruncatedData)
        /\ Len(src.data) = Len(sink) => dec = [patch |-> gen.patch, err |-> "nil"]
        /\ dec.patch # << >> => dec.patch = gen.patch

\* C4: tamper detection.  With one bit of the stored original checksum
\* flipped, the file still decodes and applyPatch on original fails with
\* "original file checksum mismatch"; with one bit of the stored patched
\* checksum flipped, it fails with "patched file checksum mismatch".  No
\* buffer is returned in either case.
C4_TamperDetection ==
    /\ tamper # "none" =>
          /\ pc # "applied"
          /\ reader # "none" => (dec.err = "nil" /\ dec.patch # << >>)
          /\ out.buf = << >>
    /\ (tamper = "original" /\ pc = "failed") =>
          out = ApplyFail("original file checksum mismatch")
    /\ (tamper = "patched" /\ pc = "failed") =>
          out = ApplyFail("patched file checksum mismatch")

C4_Witness ==
    /\ tamper = "patched"
    /\ pc = "failed"
    /\ original # modified
    /\ Len(dec.patch[1].PatchItems) = 2
    /\ out.err = "patched file checksum mismatch"

\* applyPatch has returned (or aborted).
Applied == pc = "applied" \/ out.err # "nil"

\* The four checks of applyPatch, on the buffer buf it is about to return.
ChecksPass(orig, patch, buf) ==
    /\ U32(Len(orig)) = patch.OriginalLength
    /\ Sum256(orig) = patch.OriginalChecksum
    /\ U32(Len(buf)) = patch.PatchedLength
    /\ Sum256(buf) = patch.PatchedChecksum

\* C5: applyPatch returns a buffer only when all four checks pass: a returned
\* buffer comes with no error, has the length patch.PatchedLength and the
\* checksum patch.PatchedChecksum, and the original matched the patch; with
\* any error no buffer is returned.
C5_BufferOnlyIfChecksPass ==
    Applied =>
        /\ out.buf # << >> =>
              /\ out.err = "nil"
              /\ ChecksPass(original, dec.patch[1], out.buf[1])
        /\ out.err # "nil" => out.buf = << >>
        /\ out.err = "nil" => out.buf # << >>

\* A forged patch whose two items change the buffer and whose checks pass.
C5_Witness ==
    /\ pc = "applied"
    /\ gen = NoPatch
    /\ Len(dec.patch[1].PatchItems) = 2
    /\ out.buf # << >>
    /\ out.buf[1] # original

ApplyFailures ==
    {"original file length mismatch", "original file checksum mismatch",
     "patched file length mismatch", "patched file checksum mismatch"}

\* C6: for every original and every decoded PatchFile, applyPatch ends with a
\* returned buffer or with one of its four errors; it never aborts, also not
\* when offset + len(content) exceeds the 32-bit range.
C6_NeverAborts ==
    Applied =>
        /\ ~out.abort
        /\ \/ (out.err = "nil" /\ out.buf # << >>)
           \/ (out.err \in ApplyFailures /\ out.buf = << >>)

\* The byte source holds at least the magic and the two version bytes.
HasHeader == Len(src.data) >= 10

SourceMagic == SubSeq(src.data, 1, 8)

SourceVersion == <<src.data[9], src.data[10]>>

\* "MTGADIFF" in ASCII.
MagicBytes == <<77, 84, 71, 65, 68, 73, 70, 70>>

\* C11: version rejection.  A byte source that starts with the 8 magic bytes
\* followed by two version bytes other than (0x01, 0x00) makes the decoder
\* (readPatchFile and readPatchFilev2) fail with "unsupported patch version"
\* and return no PatchFile, whatever follows the version bytes; a PatchFile
\* is returned only for version (0x01, 0x00).
C11_VersionRejection ==
    (reader # "none" /\ HasHeader) =>
        /\ (SourceMagic = MagicBytes /\ SourceVersion # <<1, 0>>) =>
              (dec = DecodeFail("unsupported patch version") /\ pc = "failed")
        /\ dec.patch # << >> => SourceVersion = <<1, 0>>

\* Right magic, version (1, 1), and nothing after the version bytes.
C11_Witness ==
    /\ reader = "v1"
    /\ Len(src.data) = 10
    /\ SourceMagic = MagicBytes
    /\ SourceVersion = <<1, 1>>
    /\ dec.err = "unsupported patch version"

\* C12: the magic is checked first.  A byte source whose first 8 bytes are
\* not "MTGADIFF" makes the decoder fail with "invalid patch file format",
\* whatever the version bytes are: with both a wrong magic and a wrong
\* version the failure is the one of the magic.
C12_MagicFirst ==
    (reader # "none" /\ Len(src.data) >= 8 /\ SourceMagic # MagicBytes) =>
        (dec = DecodeFail("invalid patch file format") /\ pc = "failed")

\* Wrong magic and wrong version at once.
C12_Witness ==
    /\ reader = "v1"
    /\ HasHeader
    /\ SourceMagic # MagicBytes
    /\ SourceVersion = <<2, 1>>
    /\ dec.err = "invalid patch file format"

\* C13: generatePatch fails with "empty input files" and returns no PatchFile
\* whenever original or modified (or both) is empty, and returns a PatchFile
\* without error for every pair of non-empty buffers.
C13_EmptyInput ==
    pc # "start" =>
        IF Len(original) = 0 \/ Len(modified) = 0
        THEN gen = [patch |-> << >>, err |-> "empty input files"] /\ pc = "failed"
        ELSE gen.err = "nil" /\ gen.patch # << >>

\* Only modified is empty.
C13_Witness ==
    /\ pc = "failed"
    /\ Len(original) = 2
    /\ Len(modified) = 0
    /\ gen.err = "empty input files"

\* The four bytes of a 32-bit value, most significant first.
BEBytes(u) == <<u.hi \div 256, u.hi % 256, u.lo \div 256, u.lo % 256>>

\* The number of bytes before item k in the encoding of items: the 86 bytes
\* of the header and, for every earlier item, 8 bytes and its content.
RECURSIVE ItemStart(_, _)
ItemStart(items, k) ==
    IF k = 1 THEN 86 ELSE ItemStart(items, k - 1) + 8 + Len(items[k - 1].Content)

\* bytes is patch in the layout of the file format: magic, version, original
\* length, original checksum, patched length, patched checksum, item count,
\* then every item as offset, content length and content.
HasLayout(bytes, patch) ==
    LET items == patch.PatchItems
    IN  /\ Len(bytes) = ItemStart(items, Len(items) + 1)
        /\ SubSeq(bytes, 1, 8) = MagicBytes
        /\ bytes[9] = 1
        /\ bytes[10] = 0
        /\ SubSeq(bytes, 11, 14) = BEBytes(patch.OriginalLength)
        /\ SubSeq(bytes, 15, 46) = patch.OriginalChecksum
        /\ SubSeq(bytes, 47, 50) = BEBytes(patch.PatchedLength)
        /\ SubSeq(bytes, 51, 82) = patch.PatchedChecksum
        /\ SubSeq(bytes, 83, 86) = BEBytes(U32(Len(items)))
        /\ \A k \in 1..Len(items) :
              LET at == ItemStart(items, k)
              IN  /\ SubSeq(bytes, at + 1, at + 4) = BEBytes(items[k].Offset)
                  /\ SubSeq(bytes, at + 5, at + 8) = BEBytes(U32(Len(items[k].Content)))
                  /\ SubSeq(bytes, at + 9, at + 8 + Len(items[k].Content))
                        = items[k].Content

\* C15: writePatchFile produces the byte-exact layout: bytes 0..7 MTGADIFF,
\* byte 8 0x01, byte 9 0x00, bytes 10..13 originalLength big-endian, 14..45
\* originalChecksum, 46..49 patchedLength big-endian, 50..81 patchedChecksum,
\* 82..85 the item count big-endian, then each item in stored order as
\* offset (4 bytes), content length (4 bytes), content; 86 bytes plus 8 and
\* the content length per item in all.
C15_WireLayout ==
    pc \in {"written", "decoded", "applied"} => HasLayout(sink, gen.patch[1])

\* A file of two items, 86 + (8 + 1) + (8 + 2) bytes long.
C15_Witness ==
    /\ pc = "written"
    /\ Len(GenItems) = 2
    /\ Len(GenItems[2].Content) = 2
    /\ Len(sink) = 105

\* C16: in every PatchFile generatePatch returns, every item's content is
\* non-empty, the offsets are strictly ascending in stored order, each item
\* ends at or before the next item's offset, and every item ends at or before
\* patchedLength.
C16_ItemInvariants ==
    Generated =>
        /\ \A k \in 1..Len(GenItems) :
              /\ Len(GenItems[k].Content) > 0
              /\ ItemEnd(GenItems[k]) <= IntOf(gen.patch[1].PatchedLength)
        /\ \A k \in 1..(Len(GenItems) - 1) :
              /\ IntOf(GenItems[k].Offset) < IntOf(GenItems[k + 1].Offset)
              /\ ItemEnd(GenItems[k]) <= IntOf(GenItems[k + 1].Offset)

\* Two items, the second starting where the first ends.
C16_Witness ==
    /\ pc = "generated"
    /\ Len(GenItems) = 2
    /\ ItemEnd(GenItems[1]) = IntOf(GenItems[2].Offset)

\* C14: applyPatch fails with "original file length mismatch" whenever
\* len(original) differs from patch.OriginalLength; the check comes first, so
\* the same error is reported when the checksum of original disagrees too,
\* and no item is applied (no buffer, no abort).
C14_OriginalLengthFirst ==
    (Applied /\ U32(Len(original)) # dec.patch[1].OriginalLength) =>
        out = ApplyFail("original file length mismatch")

\* Length and checksum are both wrong and the patch carries an item.
C14_Witness ==
    /\ pc = "failed"
    /\ U32(Len(original)) # dec.patch[1].OriginalLength
    /\ Sum256(original) # dec.patch[1].OriginalChecksum
    /\ Len(dec.patch[1].PatchItems) = 1
    /\ out.err = "original file length mismatch"

\* The two checks of the original pass for the decoded patch.
OriginalChecksPass ==
    /\ U32(Len(original)) = dec.patch[1].OriginalLength
    /\ Sum256(original) = dec.patch[1].OriginalChecksum

DecItems == dec.patch[1].PatchItems

SomeItemWraps == \E k \in 1..Len(DecItems) : Wraps(DecItems[k])

\* Item k covers position i (counted from 1) of the buffer.
Covers(k, i) == i > IntOf(DecItems[k].Offset) /\ i <= ItemEnd(DecItems[k])

\* The largest element of a non-empty set of numbers.
Largest(S) == CHOOSE m \in S : \A n \in S : n <= m

\* The buffer the section on applying describes, for items that do not wrap:
\* as long as the base copy and as the furthest item end, each position
\* holding the byte of the last item in stored order that covers it, else the
\* byte of the base copy, else zero.
ExpectedBuffer ==
    LET base == [i \in 1..IntOf(dec.patch[1].PatchedLength) |->
                    IF i <= Len(original) THEN original[i] ELSE 0]
        len  == Largest({Len(base)} \cup {ItemEnd(DecItems[k]) : k \in 1..Len(DecItems)})
    IN  [i \in 1..len |->
            LET covering == {k \in 1..Len(DecItems) : Covers(k, i)}
            IN  IF covering # {}
                THEN LET k == Largest(covering)
                     IN  DecItems[k].Content[i - IntOf(DecItems[k].Offset)]
                ELSE IF i <= Len(base) THEN base[i] ELSE 0]

\* What applyPatch returns when the buffer after the loop is buf.
VerifyResult(buf) ==
    IF U32(Len(buf)) # dec.patch[1].PatchedLength
    THEN ApplyFail("patched file length mismatch")
    ELSE IF Sum256(buf) # dec.patch[1].PatchedChecksum
    THEN ApplyFail("patched file checksum mismatch")
    ELSE Succeeded(buf)

\* C17: items are applied in stored order and later writes win: when the loop
\* over the items has run to its end, every position covered by several items
\* holds the byte of the one that is last in patch.PatchItems, whatever the
\* offsets, and applyPatch returns or rejects exactly that buffer.
C17_LaterWritesWin ==
    (Applied /\ OriginalChecksPass /\ ~out.abort) =>
        /\ ~SomeItemWraps
        /\ out = VerifyResult(ExpectedBuffer)

\* The second item starts before the first, both cover one position with
\* different bytes, and the buffer is returned.
C17_Witness ==
    /\ pc = "applied"
    /\ Len(DecItems) = 2
    /\ IntOf(DecItems[2].Offset) < IntOf(DecItems[1].Offset)
    /\ \E i \in 1..Len(out.buf[1]) :
          /\ Covers(1, i)
          /\ Covers(2, i)
          /\ DecItems[1].Content[i - IntOf(DecItems[1].Offset)] # out.buf[1][i]
          /\ DecItems[2].Content[i - IntOf(DecItems[2].Offset)] = out.buf[1][i]

\* C18: an item whose offset + len(content) exceeds the current buffer length
\* makes applyPatch grow the buffer to exactly that size, zero-filled, and
\* then write content at offset; the length never decreases and bytes outside
\* every item keep the base copy's value or zero.  An item whose end lies
\* beyond the 32-bit range exceeds every buffer length, so the buffer ends
\* longer than any PatchedLength.
C18_GrowthBeforeWrite ==
    (Applied /\ OriginalChecksPass) =>
        IF SomeItemWraps
        THEN out = ApplyFail("patched file length mismatch")
        ELSE out = VerifyResult(ExpectedBuffer)

\* C19: when the original passes both checks and some item has
\* offset + len(content), not wrapped, above patch.PatchedLength, applyPatch
\* fails with "patched file length mismatch".
C19_ExceedingItemsRejected ==
    (/\ Applied
     /\ OriginalChecksPass
     /\ \E k \in 1..Len(DecItems) :
           /\ ~Wraps(DecItems[k])
           /\ ItemEnd(DecItems[k]) > IntOf(dec.patch[1].PatchedLength))
        => out = ApplyFail("patched file length mismatch")

\* C20: readPatchFile validates no item: a well-formed stream whose offsets
\* are descending, equal, overlapping or beyond PatchedLength, or whose items
\* have no content, is accepted, and the PatchFile returned has exactly the
\* stored item count and the stored items in the stored order.
C20_ItemsAsStored ==
    reader # "none" =>
        /\ dec.err = "nil"
        /\ dec.patch # << >>
        /\ HasLayout(sink, dec.patch[1])

\* The first item is empty and lies beyond the second, which overlaps
\* nothing declared: it ends beyond PatchedLength.
C20_Witness ==
    /\ pc = "decoded"
    /\ Len(DecItems) = 2
    /\ DecItems[1] = PatchItem(U32(2), << >>)
    /\ DecItems[2] = PatchItem(U32(0), <<0, 1>>)
    /\ dec.patch[1].PatchedLength = U32(0)

\* The bytes of a patch file written in full.
FullEncoding == Concat(WriteCalls(gen.patch[1]))

\* C21: writing a patch fails only on a write fault of the sink: the first
\* Write of the sink that reports an error makes writePatchFile and
\* writePatchFilev2 return that error at once, with no further Write issued
\* and only the bytes of the earlier writes delivered; when no Write fails
\* they return no error, for every PatchFile.
C21_WriteFaultOnly ==
    wrote.writer # "none" =>
        /\ wrote.fault = 0 =>
              /\ wrote.err = "nil"
              /\ Len(sink) = Len(FullEncoding)
              /\ wrote.writer = "v1" => wrote.writes = 7 + 3 * Len(GenItems)
        /\ wrote.fault > 0 =>
              /\ wrote.err = "write fault"
              /\ wrote.writes = wrote.fault
              /\ pc = "failed"
              /\ reader = "none"
              /\ Len(sink) < Len(FullEncoding)
              /\ sink = SliceTo(FullEncoding, Len(sink))
        /\ wrote.err # "nil" => wrote.fault > 0

\* The Write of the first item's content fails: the header and the item's
\* offset and length have reached the file, nothing else.
C21_Witness ==
    /\ wrote.writer = "v1"
    /\ wrote.fault = 10
    /\ wrote.err = "write fault"
    /\ Len(GenItems) = 2
    /\ Len(sink) = 94

\* C23: the two codec variants agree: writePatchFilev2, after its Flush,
\* has delivered exactly the bytes writePatchFile delivers, whatever the
\* size of the bufio.Writer; and on a stream that fills every Read,
\* readPatchFile and readPatchFilev2 return the same PatchFile or the same
\* error.
C23_CodecsAgree ==
    /\ (wrote.writer # "none" /\ wrote.fault = 0 /\ tamper = "none") =>
          /\ sink = writePatchFile(gen.patch[1], 0).bytes
          /\ \A size \in BufSizes :
                sink = writePatchFilev2(gen.patch[1], size, 0).bytes
    /\ reader # "none" =>
          /\ dec = readPatchFile(src)
          /\ dec = readPatchFilev2(src)

\* A file of two items written through a 4-byte bufio.Writer and read back
\* by readPatchFile.
C23_Witness ==
    /\ wrote.writer = "v2"
    /\ wrote.size = 4
    /\ reader = "v1"
    /\ pc = "decoded"
    /\ Len(DecItems) = 2

====
